---------------------------- MODULE Spec2Model ----------------------------
(***************************************************************************)
(* dso-name-pseudonymizer (src/main.py): NamePseudonymizer and main().    *)
(*                                                                         *)
(* Text is a sequence of one-character strings.  The characters stand for *)
(* the classes the detection pattern and the codecs distinguish.          *)
(***************************************************************************)
EXTENDS Integers, Sequences, FiniteSets, TLC

VARIABLES
    pc,                 \* position of main(): the pipeline stage reached
    args,               \* the parsed command line
    fs_input,           \* the input file: [state, data]
    fs_output,          \* the output file: [state, data]
    self,               \* the NamePseudonymizer: [names, gender, locale]
    raw_data,           \* the bytes read for encoding detection
    encoding,           \* result['encoding'] of chardet.detect
    text,               \* the decoded document handed to pseudonymize_text
    pos,                \* re.sub: next position of text to scan (1-based)
    out,                \* re.sub: the result built so far
    pseudonymized_text, \* the value pseudonymize_text returned
    calls,              \* trace of replace_name calls: span, path used, value
    io,                 \* trace of file system events: <<who, file, outcome>>
    log,                \* records emitted by the logging module
    stdout,             \* what print() wrote
    exit_status         \* <<>> while running, <<n>> once the process exited

vars == <<pc, args, fs_input, fs_output, self, raw_data, encoding, text, pos,
          out, pseudonymized_text, calls, io, log, stdout, exit_status>>

\* what pseudonymize_text neither reads nor writes
shell == <<args, fs_input, fs_output, raw_data, encoding, io, log, stdout,
           exit_status>>

----------------------------------------------------------------------------
(* Bounds *)

\* a document of the substitution specification is at most MaxFrags fragments
MaxFrags == 4

\* an input file of the pipeline specification is at most MaxByteFrags fragments
MaxByteFrags == 3

----------------------------------------------------------------------------
(* Characters *)

Upper == {"A", "J", "L", "K", "M", "F", "R"}
Lower == {"a", "o", "e", "y"}
Digit == {"1"}
\* what \s matches in a str pattern: space, tab, newline (and \r \f \v ...)
Whitespace == {" ", "\t", "\n"}

IsUpper(c) == c \in Upper
IsLower(c) == c \in Lower

\* the pattern written with a literal space in place of \s
IsSpace_OnlySpace(c) == c = " "

IsSpace(c) == c \in Whitespace
\* \w of a str pattern: Unicode letters, digits and the underscore
IsWord(c) == c \in Upper \cup Lower \cup Digit \cup {"é", "Ã"}

RECURSIVE Flatten(_)
Flatten(ss) == IF ss = <<>> THEN <<>> ELSE Head(ss) \o Flatten(Tail(ss))

Slice(t, a, b) == [k \in 1..(b - a + 1) |-> t[a + k - 1]]

----------------------------------------------------------------------------
(* name_pattern = r'\b[A-Z][a-z]+\s[A-Z][a-z]+\b', as the backtracking     *)
(* engine matches it at one start position.                                *)

\* \b between t[p-1] and t[p]; outside the string counts as a non-word
WordBoundary(t, p) ==
    LET before == p > 1 /\ IsWord(t[p - 1])
        after  == p <= Len(t) /\ IsWord(t[p])
    IN  before # after

\* the ends e of [a-z]+ started at s
LowerRunEnds(t, s) ==
    {e \in s..Len(t) : \A q \in s..e : IsLower(t[q])}

Max(S) == CHOOSE x \in S : \A y \in S : y <= x
Min(S) == CHOOSE x \in S : \A y \in S : x <= y

\* [A-Z][a-z]+\b started at s: the ends, greedy first
SecondWordEnds(t, s) ==
    IF s <= Len(t) /\ IsUpper(t[s])
    THEN {e \in LowerRunEnds(t, s + 1) : WordBoundary(t, e + 1)}
    ELSE {}

\* \s[A-Z][a-z]+\b after a first word that ends at k
TailEnds(t, k) ==
    IF k + 1 <= Len(t) /\ IsSpace(t[k + 1])
    THEN SecondWordEnds(t, k + 2)
    ELSE {}

\* the end of the match that starts at i, 0 when there is none: the
\* quantifiers are greedy, so the longest first word with a matching tail
\* wins, then the longest second word
MatchAt(t, i) ==
    IF i <= Len(t) /\ WordBoundary(t, i) /\ IsUpper(t[i])
    THEN LET ks == {k \in LowerRunEnds(t, i + 1) : TailEnds(t, k) # {}}
         IN  IF ks = {} THEN 0 ELSE Max(TailEnds(t, Max(ks)))
    ELSE 0

\* re.sub scans left to right from p: the start of the next match, 0 if none
NextMatch(t, p) ==
    LET starts == {i \in p..Len(t) : MatchAt(t, i) # 0}
    IN  IF starts = {} THEN 0 ELSE Min(starts)

----------------------------------------------------------------------------
(* The name generator (faker) is a black box: what each path may return.   *)

NameMale   == {<<"M", "o", " ", "R", "o">>}
NameFemale == {<<"F", "a", " ", "R", "o">>}
NameAny    == NameMale \cup NameFemale

\* the list is used only when it holds more than one name
GeneratePseudonym_ListIgnored(s) ==
    IF Len(s.names) > 1
    THEN {[path |-> "random.choice", value |-> s.names[k]] :
             k \in 1..Len(s.names)}
    ELSE IF s.gender = "male"
    THEN {[path |-> "name_male", value |-> v] : v \in NameMale}
    ELSE IF s.gender = "female"
    THEN {[path |-> "name_female", value |-> v] : v \in NameFemale}
    ELSE {[path |-> "name", value |-> v] : v \in NameAny}

\* the 'female' test never succeeds and falls through to name()
GeneratePseudonym_FemaleFallsThrough(s) ==
    IF s.names # <<>>
    THEN {[path |-> "random.choice", value |-> s.names[k]] :
             k \in 1..Len(s.names)}
    ELSE IF s.gender = "male"
    THEN {[path |-> "name_male", value |-> v] : v \in NameMale}
    ELSE {[path |-> "name", value |-> v] : v \in NameAny}

\* _generate_pseudonym: the outcomes of one call, with the path taken
GeneratePseudonym(s) ==
    IF s.names # <<>>
    THEN {[path |-> "random.choice", value |-> s.names[k]] :
             k \in 1..Len(s.names)}
    ELSE IF s.gender = "male"
    THEN {[path |-> "name_male", value |-> v] : v \in NameMale}
    ELSE IF s.gender = "female"
    THEN {[path |-> "name_female", value |-> v] : v \in NameFemale}
    ELSE {[path |-> "name", value |-> v] : v \in NameAny}

----------------------------------------------------------------------------
(* pseudonymize_text: re.sub(name_pattern, replace_name, text)             *)

\* the scan resumes one character after the start of the match, not after
\* its end
ReplaceName_Overlapping ==
    /\ pc = "InputDecoded"
    /\ NextMatch(text, pos) # 0
    /\ LET i == NextMatch(text, pos)
           e == MatchAt(text, i)
       IN  \E r \in GeneratePseudonym(self) :
              /\ out' = out \o Slice(text, pos, i - 1) \o r.value
              /\ pos' = i + 1
              /\ calls' = Append(calls, [start |-> i, end |-> e,
                                         path |-> r.path, value |-> r.value])
    /\ UNCHANGED <<pc, self, text, pseudonymized_text, shell>>

\* one match found: replace_name is called and its value is appended
ReplaceName ==
    /\ pc = "InputDecoded"
    /\ NextMatch(text, pos) # 0
    /\ LET i == NextMatch(text, pos)
           e == MatchAt(text, i)
       IN  \E r \in GeneratePseudonym(self) :
              /\ out' = out \o Slice(text, pos, i - 1) \o r.value
              /\ pos' = e + 1
              /\ calls' = Append(calls, [start |-> i, end |-> e,
                                         path |-> r.path, value |-> r.value])
    /\ UNCHANGED <<pc, self, text, pseudonymized_text, shell>>

\* the text after the last match is not copied
SubReturn_DropsTail ==
    /\ pc = "InputDecoded"
    /\ NextMatch(text, pos) = 0
    /\ pseudonymized_text' = out
    /\ pc' = "Substituted"
    /\ UNCHANGED <<self, text, pos, out, calls, shell>>

\* no further match: the rest is copied and the result returned
SubReturn ==
    /\ pc = "InputDecoded"
    /\ NextMatch(text, pos) = 0
    /\ pseudonymized_text' = out \o Slice(text, pos, Len(text))
    /\ pc' = "Substituted"
    /\ UNCHANGED <<self, text, pos, out, calls, shell>>

----------------------------------------------------------------------------
(* Codecs.  Bytes are one-character strings for ASCII and "xHH" otherwise. *)

NonAscii == {"xC2", "xC3", "x83", "xA9"}

\* bytes.decode: [ok, text]
RECURSIVE DecodeUtf8(_)
DecodeUtf8(b) ==
    IF b = <<>> THEN [ok |-> TRUE, text |-> <<>>]
    ELSE IF Head(b) \notin NonAscii
    THEN LET r == DecodeUtf8(Tail(b))
         IN  [ok |-> r.ok, text |-> <<Head(b)>> \o r.text]
    ELSE IF Len(b) >= 2 /\ Head(b) \in {"xC2", "xC3"} /\ b[2] \in {"x83", "xA9"}
    THEN LET r == DecodeUtf8(Tail(Tail(b)))
             c == IF Head(b) = "xC3"
                  THEN (IF b[2] = "xA9" THEN "é" ELSE "Ã")
                  ELSE (IF b[2] = "xA9" THEN "©" ELSE "x83")
         IN  [ok |-> r.ok, text |-> <<c>> \o r.text]
    ELSE [ok |-> FALSE, text |-> <<>>]

Latin1Char(x) ==
    CASE x = "xC3" -> "Ã"
      [] x = "xA9" -> "©"
      [] OTHER     -> x

DecodeLatin1(b) == [k \in 1..Len(b) |-> Latin1Char(b[k])]

\* the encoding open() uses when encoding=None: the locale's preferred one
DefaultEncoding == "utf-8"

Decode(b, enc) ==
    LET e == IF enc = "None" THEN DefaultEncoding ELSE enc
    IN  CASE e = "ascii" ->
               IF \A k \in 1..Len(b) : b[k] \notin NonAscii
               THEN [ok |-> TRUE, text |-> b]
               ELSE [ok |-> FALSE, text |-> <<>>]
          [] e = "utf-8" -> DecodeUtf8(b)
          [] OTHER -> [ok |-> TRUE, text |-> DecodeLatin1(b)]

Utf8Bytes(c) ==
    CASE c = "é" -> <<"xC3", "xA9">>
      [] c = "Ã" -> <<"xC3", "x83">>
      [] c = "©" -> <<"xC2", "xA9">>
      [] OTHER   -> <<c>>

\* str written through open(..., 'w', encoding='utf-8')
EncodeUtf8(t) == Flatten([k \in 1..Len(t) |-> Utf8Bytes(t[k])])

\* chardet.detect(raw_data)['encoding'] is a black box: the answers it may give
Detect(b) ==
    IF b = <<>> THEN {"None"}
    ELSE IF \A k \in 1..Len(b) : b[k] \notin NonAscii THEN {"ascii"}
    ELSE {"utf-8", "ISO-8859-1", "None"}

----------------------------------------------------------------------------
(* The name-list files of the modelled file system, by path                *)

NameListFS(path) ==
    CASE path = "denied.txt" -> [state |-> "denied", lines |-> <<>>]
      [] path = "empty.txt"  -> [state |-> "file", lines |-> <<>>]
      [] path = "one.txt"    ->
           [state |-> "file", lines |-> << <<"J", "o", " ", "L", "e", "\n">> >>]
      [] path = "three.txt"  ->
           [state |-> "file",
            lines |-> << <<" ", "J", "o", " ", "L", "e", "\t", "\n">>,
                         <<"\n">>,
                         <<"K", "y">> >>]
      [] OTHER               -> [state |-> "missing", lines |-> <<>>]

\* str.strip()
RECURSIVE LStrip(_)
LStrip(l) == IF l # <<>> /\ IsSpace(Head(l)) THEN LStrip(Tail(l)) ELSE l

RECURSIVE RStrip(_)
RStrip(l) ==
    IF l # <<>> /\ IsSpace(l[Len(l)]) THEN RStrip(SubSeq(l, 1, Len(l) - 1)) ELSE l

Strip(l) == RStrip(LStrip(l))

\* [line.strip() for line in f]
ReadNames(lines) == [k \in 1..Len(lines) |-> Strip(lines[k])]

----------------------------------------------------------------------------
(* Logging and process exit                                                *)

LevelNo == [DEBUG |-> 10, INFO |-> 20, WARNING |-> 30, ERROR |-> 40,
            CRITICAL |-> 50]

\* a record reaches the log when its level is at least the configured one
Log(l, level, msg) ==
    IF LevelNo[level] >= LevelNo[args.log_level]
    THEN Append(l, [level |-> level, msg |-> msg])
    ELSE l

\* `if name_list_path:` and `if args.name_list and ...`: None and '' are falsy
Truthy(path) == path \notin {"None", ""}

\* main, lines 118-119
Warned ==
    IF Truthy(args.name_list) /\ args.gender # "None"
    THEN Log(log, "WARNING", "Both --name_list and --gender are specified")
    ELSE log

\* the handler prints and exits with status 0
ExitWith_StatusZero(msg) ==
    /\ stdout' = Append(stdout, msg)
    /\ exit_status' = <<0>>
    /\ pc' = "Failed"

\* print(msg); sys.exit(1)
ExitWith(msg) ==
    /\ stdout' = Append(stdout, msg)
    /\ exit_status' = <<1>>
    /\ pc' = "Failed"

SupportedLocales == {"en_US"}

----------------------------------------------------------------------------
(* main(): construction, lines 116-127 with __init__, lines 35-49          *)

\* Faker(self.locale) raises for an unknown locale
ConstructBadLocale ==
    /\ pc = "Start"
    /\ args.locale \notin SupportedLocales
    /\ log' = Warned
    /\ ExitWith("Error initializing pseudonymizer")
    /\ UNCHANGED <<args, fs_input, fs_output, self, raw_data, encoding, text,
                   pos, out, pseudonymized_text, calls, io>>

\* __init__ logs the missing file and goes on with an empty list
ConstructNameListMissing_Swallowed ==
    /\ pc = "Start"
    /\ args.locale \in SupportedLocales
    /\ Truthy(args.name_list)
    /\ NameListFS(args.name_list).state = "missing"
    /\ io' = Append(io, <<"open", "name_list", "FileNotFoundError">>)
    /\ log' = Log(Warned, "ERROR", "Name list file not found")
    /\ self' = [names |-> <<>>, gender |-> args.gender, locale |-> args.locale]
    /\ pc' = "ConfigResolved"
    /\ UNCHANGED <<args, fs_input, fs_output, raw_data, encoding, text, pos,
                   out, pseudonymized_text, calls, stdout, exit_status>>

\* open(name_list_path) raises FileNotFoundError
ConstructNameListMissing ==
    /\ pc = "Start"
    /\ args.locale \in SupportedLocales
    /\ Truthy(args.name_list)
    /\ NameListFS(args.name_list).state = "missing"
    /\ io' = Append(io, <<"open", "name_list", "FileNotFoundError">>)
    /\ log' = Log(Warned, "ERROR", "Name list file not found")
    /\ ExitWith("Error: FileNotFoundError")
    /\ UNCHANGED <<args, fs_input, fs_output, self, raw_data, encoding, text,
                   pos, out, pseudonymized_text, calls>>

\* open or read of the name list raises another exception
ConstructNameListError ==
    /\ pc = "Start"
    /\ args.locale \in SupportedLocales
    /\ Truthy(args.name_list)
    /\ NameListFS(args.name_list).state = "denied"
    /\ io' = Append(io, <<"open", "name_list", "PermissionError">>)
    /\ log' = Log(Warned, "ERROR", "Error reading name list file")
    /\ ExitWith("Error initializing pseudonymizer")
    /\ UNCHANGED <<args, fs_input, fs_output, self, raw_data, encoding, text,
                   pos, out, pseudonymized_text, calls>>

ConstructOk ==
    /\ pc = "Start"
    /\ args.locale \in SupportedLocales
    /\ IF Truthy(args.name_list)
       THEN /\ NameListFS(args.name_list).state = "file"
            /\ io' = Append(io, <<"open", "name_list", "ok">>)
            /\ self' = [names  |-> ReadNames(NameListFS(args.name_list).lines),
                        gender |-> args.gender,
                        locale |-> args.locale]
       ELSE /\ io' = io
            /\ self' = [names |-> <<>>, gender |-> args.gender,
                        locale |-> args.locale]
    /\ log' = Warned
    /\ pc' = "ConfigResolved"
    /\ UNCHANGED <<args, fs_input, fs_output, raw_data, encoding, text, pos,
                   out, pseudonymized_text, calls, stdout, exit_status>>

----------------------------------------------------------------------------
(* main(): encoding detection, lines 129-133                               *)

\* open(args.input_file, 'rb') raises: only the outer handler (163-166) is
\* around it
DetectOpenFails ==
    /\ pc = "ConfigResolved"
    /\ fs_input.state # "file"
    /\ io' = Append(io, <<"open", "input_rb",
                          IF fs_input.state = "missing"
                          THEN "FileNotFoundError" ELSE "PermissionError">>)
    /\ log' = Log(log, "CRITICAL", "An unexpected error occurred")
    /\ ExitWith("An unexpected error occurred")
    /\ UNCHANGED <<args, fs_input, fs_output, self, raw_data, encoding, text,
                   pos, out, pseudonymized_text, calls>>

DetectEncoding ==
    /\ pc = "ConfigResolved"
    /\ fs_input.state = "file"
    /\ io' = Append(io, <<"open", "input_rb", "ok">>)
    /\ raw_data' = fs_input.data
    /\ encoding' \in Detect(fs_input.data)
    /\ pc' = "Detected"
    /\ UNCHANGED <<args, fs_input, fs_output, self, text, pos, out,
                   pseudonymized_text, calls, log, stdout, exit_status>>

----------------------------------------------------------------------------
(* The environment: another process rewrites or removes the input file     *)
(* between the two opens of main (once per run)                            *)

EnvInputs == {
    [state |-> "missing", data |-> <<>>],
    [state |-> "file", data |-> <<"A", "a", "\t", "A", "a">>],
    [state |-> "file", data |-> <<"xA9">>] }

EnvChangeInput ==
    /\ pc = "Detected"
    /\ \A k \in 1..Len(io) : io[k][1] # "env"
    /\ \E f \in EnvInputs :
          /\ f # fs_input
          /\ fs_input' = f
    /\ io' = Append(io, <<"env", "input", "changed">>)
    /\ UNCHANGED <<pc, args, fs_output, self, raw_data, encoding, text, pos,
                   out, pseudonymized_text, calls, log, stdout, exit_status>>

----------------------------------------------------------------------------
(* main(): reading the input, lines 135-146                                *)

ReadNotFound ==
    /\ pc = "Detected"
    /\ fs_input.state = "missing"
    /\ io' = Append(io, <<"open", "input_r", "FileNotFoundError">>)
    /\ log' = Log(log, "ERROR", "Input file not found")
    /\ ExitWith("Error: Input file not found")
    /\ UNCHANGED <<args, fs_input, fs_output, self, raw_data, encoding, text,
                   pos, out, pseudonymized_text, calls>>

\* the bytes now in the file do not decode with the detected encoding
ReadFails ==
    /\ pc = "Detected"
    /\ fs_input.state = "file"
    /\ ~Decode(fs_input.data, encoding).ok
    /\ io' = Append(io, <<"open", "input_r", "UnicodeDecodeError">>)
    /\ log' = Log(log, "ERROR", "Error reading input file")
    /\ ExitWith("Error reading input file")
    /\ UNCHANGED <<args, fs_input, fs_output, self, raw_data, encoding, text,
                   pos, out, pseudonymized_text, calls>>

ReadInput ==
    /\ pc = "Detected"
    /\ fs_input.state = "file"
    /\ Decode(fs_input.data, encoding).ok
    /\ io' = Append(io, <<"open", "input_r", "ok">>)
    /\ text' = Decode(fs_input.data, encoding).text
    /\ pos' = 1
    /\ out' = <<>>
    /\ pc' = "InputDecoded"
    /\ UNCHANGED <<args, fs_input, fs_output, self, raw_data, encoding,
                   pseudonymized_text, calls, log, stdout, exit_status>>

----------------------------------------------------------------------------
(* main(): writing the output, lines 151-161                               *)

\* open(args.output_file, 'w') raises: the file is left as it was
WriteOpenFails ==
    /\ pc = "Substituted"
    /\ io' = Append(io, <<"open", "output_w", "PermissionError">>)
    /\ log' = Log(log, "ERROR", "Error writing to output file")
    /\ ExitWith("Error writing to output file")
    /\ UNCHANGED <<args, fs_input, fs_output, self, raw_data, encoding, text,
                   pos, out, pseudonymized_text, calls>>

\* the open truncated the file and the write raised (disk full)
WriteFails ==
    /\ pc = "Substituted"
    /\ io' = Append(io, <<"open", "output_w", "OSError">>)
    /\ fs_output' = [state |-> "file", data |-> <<>>]
    /\ log' = Log(log, "ERROR", "Error writing to output file")
    /\ ExitWith("Error writing to output file")
    /\ UNCHANGED <<args, fs_input, self, raw_data, encoding, text, pos, out,
                   pseudonymized_text, calls>>

WriteOutput ==
    /\ pc = "Substituted"
    /\ io' = Append(io, <<"open", "output_w", "ok">>)
    /\ fs_output' = [state |-> "file", data |-> EncodeUtf8(pseudonymized_text)]
    /\ pc' = "OutputWritten"
    /\ UNCHANGED <<args, fs_input, self, raw_data, encoding, text, pos, out,
                   pseudonymized_text, calls, log, stdout, exit_status>>

\* lines 160-161, then main returns
ReportSuccess ==
    /\ pc = "OutputWritten"
    /\ log' = Log(log, "INFO", "Pseudonymized text written")
    /\ stdout' = Append(stdout, "Pseudonymized text written")
    /\ exit_status' = <<0>>
    /\ pc' = "Done"
    /\ UNCHANGED <<args, fs_input, fs_output, self, raw_data, encoding, text,
                   pos, out, pseudonymized_text, calls, io>>

----------------------------------------------------------------------------
(* Specification of one run of the program                                 *)

ByteFragments == {
    <<"A", "a", " ", "A", "a">>, <<" ">>, <<"xC3">>, <<"xA9">> }

InputFiles ==
    {[state |-> "missing", data |-> <<>>], [state |-> "denied", data |-> <<>>]}
    \cup {[state |-> "file", data |-> Flatten(fs)] :
             fs \in UNION {[1..n -> ByteFragments] : n \in 0..MaxByteFrags}}

OutputFiles ==
    {[state |-> "missing", data |-> <<>>],
     [state |-> "file", data |-> <<"o", "l", "d">>]}

Args ==
    [name_list : {"None", "", "missing.txt", "denied.txt", "empty.txt",
                  "one.txt", "three.txt"},
     gender    : {"None", "male", "female"},
     locale    : {"en_US", "xx_XX"},
     log_level : {"INFO", "ERROR"}]

Init ==
    /\ pc = "Start"
    /\ args \in Args
    /\ fs_input \in InputFiles
    /\ fs_output \in OutputFiles
    /\ self = [names |-> <<>>, gender |-> "None", locale |-> "en_US"]
    /\ raw_data = <<>>
    /\ encoding = "None"
    /\ text = <<>>
    /\ pos = 1
    /\ out = <<>>
    /\ pseudonymized_text = <<>>
    /\ calls = <<>>
    /\ io = <<>>
    /\ log = <<>>
    /\ stdout = <<>>
    /\ exit_status = <<>>

Next ==
    \/ ConstructBadLocale
    \/ ConstructNameListMissing
    \/ ConstructNameListError
    \/ ConstructOk
    \/ DetectOpenFails
    \/ DetectEncoding
    \/ EnvChangeInput
    \/ ReadNotFound
    \/ ReadFails
    \/ ReadInput
    \/ ReplaceName
    \/ SubReturn
    \/ WriteOpenFails
    \/ WriteFails
    \/ WriteOutput
    \/ ReportSuccess

Spec == Init /\ [][Next]_vars

----------------------------------------------------------------------------
(* Specification of pseudonymize_text alone, over bounded documents        *)

Fragments == {
    <<"A", "a", " ", "A", "a">>, <<"A", "a">>, <<"A">>, <<"a">>,
    <<" ">>, <<"\t">>, <<"\n">>, <<".">>, <<"1">> }

FragSeqs == UNION {[1..n -> Fragments] : n \in 0..MaxFrags}

NamesOne == << <<"J", "o", " ", "L", "e">> >>
NamesThree == << <<"J", "o", " ", "L", "e">>, <<>>, <<"K", "y">> >>

SubConfigs == {
    [names |-> <<>>, gender |-> "None", locale |-> "en_US"],
    [names |-> <<>>, gender |-> "male", locale |-> "en_US"],
    [names |-> <<>>, gender |-> "female", locale |-> "en_US"],
    [names |-> NamesOne, gender |-> "None", locale |-> "en_US"],
    [names |-> NamesThree, gender |-> "male", locale |-> "en_US"] }

SubInit ==
    /\ pc = "InputDecoded"
    /\ self \in SubConfigs
    /\ args = [name_list |-> "None", gender |-> "None", locale |-> "en_US",
               log_level |-> "INFO"]
    /\ fs_input = [state |-> "missing", data |-> <<>>]
    /\ fs_output = [state |-> "missing", data |-> <<>>]
    /\ raw_data = <<>>
    /\ encoding = "None"
    /\ io = <<>>
    /\ log = <<>>
    /\ stdout = <<>>
    /\ exit_status = <<>>
    /\ \E fs \in FragSeqs : text = Flatten(fs)
    /\ pos = 1
    /\ out = <<>>
    /\ pseudonymized_text = <<>>
    /\ calls = <<>>

SubNext == ReplaceName \/ SubReturn

SubSpec == SubInit /\ [][SubNext]_vars

----------------------------------------------------------------------------
(* Reference notions the properties are stated with                        *)

Range(f) == {f[k] : k \in DOMAIN f}

\* t[a..b] is a word: one uppercase letter, then one or more lowercase ones
CapWord(t, a, b) ==
    /\ a < b
    /\ IsUpper(t[a])
    /\ \A q \in (a + 1)..b : IsLower(t[q])

\* no word character next to the span t[i..e], on either side
Bounded(t, i, e) ==
    /\ i = 1 \/ ~IsWord(t[i - 1])
    /\ e = Len(t) \/ ~IsWord(t[e + 1])

\* t[i..e] is word, one character of seps, word, with word boundaries
Shaped(t, i, e, seps) ==
    /\ 1 <= i /\ e <= Len(t)
    /\ \E k \in (i + 1)..(e - 3) :
          /\ CapWord(t, i, k)
          /\ t[k + 1] \in seps
          /\ CapWord(t, k + 2, e)
    /\ Bounded(t, i, e)

ShapedSpans(t, seps) ==
    {sp \in (1..Len(t)) \X (1..Len(t)) : Shaped(t, sp[1], sp[2], seps)}

\* the spans a left-to-right, non-overlapping scan from p picks among S
RECURSIVE Scan(_, _)
Scan(S, p) ==
    LET later == {sp \in S : sp[1] >= p}
    IN  IF later = {} THEN <<>>
        ELSE LET first == CHOOSE sp \in later :
                             \A o \in later : sp[1] < o[1] \/
                                              (sp[1] = o[1] /\ sp[2] >= o[2])
             IN  <<first>> \o Scan(S, first[2] + 1)

Replaced == [k \in 1..Len(calls) |-> <<calls[k].start, calls[k].end>>]

----------------------------------------------------------------------------
(* Properties of pseudonymize_text (checked under SubSpec)                 *)

\* C1: with a name list of N >= 1 entries, every replacement is drawn from
\* the list: its value is an entry, and no generator path produced it
C1_ReplacementsFromList ==
    self.names # <<>> =>
        \A k \in 1..Len(calls) :
            /\ calls[k].path = "random.choice"
            /\ calls[k].value \in Range(self.names)

C1_Witness ==
    /\ pc = "Substituted"
    /\ Len(self.names) = 1
    /\ Len(calls) >= 1

\* the input outside the replaced spans, interleaved with the replacements
RECURSIVE Rebuild(_, _, _)
Rebuild(t, cs, p) ==
    IF cs = <<>> THEN Slice(t, p, Len(t))
    ELSE Slice(t, p, Head(cs).start - 1) \o Head(cs).value
         \o Rebuild(t, Tail(cs), Head(cs).end + 1)

\* C2: the returned text is the input with each matched span replaced and
\* every other character kept in place and in order; a text with no
\* name-shaped span is returned as it is, without a call of the generator
C2_PassThrough ==
    pc = "Substituted" =>
        /\ \A k \in 1..Len(calls) :
              /\ calls[k].start <= calls[k].end
              /\ k > 1 => calls[k - 1].end < calls[k].start
        /\ pseudonymized_text = Rebuild(text, calls, 1)
        /\ ShapedSpans(text, Whitespace) = {} =>
              /\ calls = <<>>
              /\ pseudonymized_text = text

C2_Witness ==
    /\ pc = "Substituted"
    /\ Len(calls) >= 1
    /\ calls[1].start > 1
    /\ calls[Len(calls)].end < Len(text)

\* C3: the number of generator calls of one pseudonymize_text call is the
\* number of non-overlapping, left-to-right matches in the original text
C3_CallsEqualMatches ==
    pc = "Substituted" =>
        Len(calls) = Len(Scan(ShapedSpans(text, Whitespace), 1))

\* three capitalized words in a row, replaced by a name-shaped pseudonym:
\* the second pair overlaps the first and is not substituted
C3_Witness ==
    /\ pc = "Substituted"
    /\ Len(calls) = 1
    /\ Cardinality(ShapedSpans(text, Whitespace)) = 2
    /\ ShapedSpans(calls[1].value, Whitespace) # {}

\* every span of S is a replaced span or begins inside one
Covered(S) ==
    \A sp \in S :
        \E k \in 1..Len(calls) :
            /\ Replaced[k][1] <= sp[1]
            /\ sp[1] <= Replaced[k][2]
            /\ Replaced[k][1] = sp[1] => Replaced[k] = sp

\* C8 as stated: the replaced spans are the spans word, one space
\* character, word (with word boundaries) that the scan picks, and a pair
\* separated by a tab or a newline is not replaced
C8_ExactlyOneSpace ==
    pc = "Substituted" =>
        /\ \A k \in 1..Len(calls) :
              Shaped(text, Replaced[k][1], Replaced[k][2], {" "})
        /\ Covered(ShapedSpans(text, {" "}))
        /\ \A sp \in ShapedSpans(text, {"\t", "\n"}) : sp \notin Range(Replaced)

\* C8 (amended): the replaced spans are the spans word, one whitespace
\* character (space, tab, newline, ...), word, with word boundaries, that
\* the left-to-right non-overlapping scan picks
C8_OneWhitespace ==
    pc = "Substituted" =>
        /\ \A k \in 1..Len(calls) :
              Shaped(text, Replaced[k][1], Replaced[k][2], Whitespace)
        /\ Covered(ShapedSpans(text, Whitespace))

C8_Witness ==
    /\ pc = "Substituted"
    /\ \E k \in 1..Len(calls) :
          Shaped(text, Replaced[k][1], Replaced[k][2], {"\t", "\n"})

GenderPath(g) ==
    CASE g = "male"   -> "name_male"
      [] g = "female" -> "name_female"
      [] OTHER        -> "name"

\* C9: without a name list, every replacement of a run takes the path the
\* gender setting selects: name_male, name_female, or name when unset
C9_PathFixedByGender ==
    self.names = <<>> =>
        \A k \in 1..Len(calls) : calls[k].path = GenderPath(self.gender)

C9_Witness ==
    /\ pc = "Substituted"
    /\ self.names = <<>>
    /\ self.gender = "female"
    /\ Len(calls) = 2

----------------------------------------------------------------------------
(* Properties of a run of main() (checked under Spec)                      *)

Opened(file) == \E k \in 1..Len(io) : io[k][1] = "open" /\ io[k][2] = file

\* C4: with both --name_list and --gender given and a readable name-list
\* file (an empty one included), the warning is logged (at a log level that
\* lets warnings through), the run goes on past construction, and every
\* replacement is an entry of the name list, never a generated name
C4_NameListOverridesGender ==
    ( /\ Truthy(args.name_list)
      /\ args.gender # "None"
      /\ NameListFS(args.name_list).state = "file"
      /\ args.locale \in SupportedLocales
      /\ pc # "Start" ) =>
        /\ LevelNo["WARNING"] >= LevelNo[args.log_level] =>
              \E k \in 1..Len(log) : log[k].level = "WARNING"
        /\ io # <<>> /\ io[1] = <<"open", "name_list", "ok">>
        /\ pc = "Failed" => Len(io) > 1
        /\ \A k \in 1..Len(calls) :
              /\ calls[k].path = "random.choice"
              /\ calls[k].value \in Range(self.names)

InputNotFound ==
    \E k \in 1..Len(io) :
        /\ io[k][2] \in {"input_rb", "input_r"}
        /\ io[k][3] = "FileNotFoundError"

\* C5: when the input file does not exist, the process exits with status 1,
\* the report printed is 'Input file not found' and not the catch-all
\* 'An unexpected error occurred', and the output file is left untouched
C5_InputNotFoundReported ==
    InputNotFound =>
        /\ pc = "Failed"
        /\ exit_status = <<1>>
        /\ stdout # <<>>
        /\ stdout[Len(stdout)] = "Error: Input file not found"
        /\ "An unexpected error occurred" \notin Range(stdout)
        /\ ~Opened("output_w")
        /\ fs_output \in OutputFiles

\* C6: a name-list path that names a missing file makes construction fail:
\* the process exits with status 1 and neither the input file nor the
\* output file is ever opened (any gender, log level and input, supported
\* locale).  A path is a non-empty string: '' counts as no path (line 40).
C6_MissingNameListFailsFirst ==
    ( /\ Truthy(args.name_list)
      /\ NameListFS(args.name_list).state = "missing"
      /\ args.locale \in SupportedLocales
      /\ pc # "Start" ) =>
        /\ pc = "Failed"
        /\ exit_status = <<1>>
        /\ io = << <<"open", "name_list", "FileNotFoundError">> >>
        /\ raw_data = <<>> /\ text = <<>> /\ calls = <<>>
        /\ fs_output \in OutputFiles

C6_Witness ==
    /\ pc = "Failed"
    /\ args.name_list = "missing.txt"
    /\ args.gender = "male"
    /\ fs_input.state = "file"
    /\ io = << <<"open", "name_list", "FileNotFoundError">> >>

\* the stage a position of main belongs to: between its two opens of the
\* input, main is still on its way to InputDecoded
Stage(p) == IF p = "Detected" THEN "ConfigResolved" ELSE p

NextStage ==
    [Start |-> "ConfigResolved", ConfigResolved |-> "InputDecoded",
     InputDecoded |-> "Substituted", Substituted |-> "OutputWritten",
     OutputWritten |-> "Done"]

C7_Step ==
    /\ pc \notin {"Done", "Failed"}
    /\ Stage(pc') # Stage(pc) =>
          \/ Stage(pc') = NextStage[Stage(pc)]
          \/ pc' = "Failed"
    /\ pc' = "Failed" => Len(exit_status') = 1 /\ exit_status'[1] # 0
    /\ pc' = "Done" => pc = "OutputWritten" /\ exit_status' = <<0>>
    /\ pc' \notin {"Done", "Failed"} => exit_status' = <<>>
    /\ fs_output' # fs_output => pc = "Substituted"
    /\ pc' = "OutputWritten" =>
          fs_output' = [state |-> "file",
                        data |-> EncodeUtf8(pseudonymized_text)]

\* C7: a run moves through Start, ConfigResolved, InputDecoded, Substituted,
\* OutputWritten, Done in this order, one stage at a time and never back;
\* Done comes only from OutputWritten, with exit status 0; a failure goes
\* straight to Failed with a non-zero status; nothing runs after Done or
\* Failed, and the output file changes only in the write stage
C7_LinearPipeline == [][C7_Step]_vars

C7_Witness ==
    /\ pc = "Failed"
    /\ exit_status = <<1>>
    /\ Len(calls) >= 1
    /\ io[Len(io)] = <<"open", "output_w", "OSError">>

\* C10: the text that is substituted is the decoding, with the detected
\* encoding, of the very bytes encoding detection ran over
C10_TextIsDetectedBytes ==
    pc \in {"InputDecoded", "Substituted", "OutputWritten", "Done"} =>
        /\ Decode(raw_data, encoding).ok
        /\ text = Decode(raw_data, encoding).text

=============================================================================
